---- MODULE Spec2Model ----
(***************************************************************************)
(* A model of github.com/eachain/flagrouter (flagrouter.go): the signature *)
(* resolver (parseMiddleware, parseFunc), the argument binder              *)
(* (parseOptions, parseField, parseTag), the default coercion engine       *)
(* (parseDefault) and the Router operations Use, Handle and Run.           *)
(*                                                                         *)
(* The flag-set engine github.com/eachain/flags is not part of the         *)
(* repository.  Its operations (fsUse, fsHandle, fsAnyVar, fsRun) are      *)
(* modelled from its contract in spec.md (sections 4.5 and 6) and from the *)
(* README.                                                                 *)
(*                                                                         *)
(* Go strings are sequences of one-character strings.                      *)
(***************************************************************************)
EXTENDS Integers, Sequences, FiniteSets, TLC

VARIABLES
    mws,    \* r.fs: the middleware wrappers registered with the engine, in order
    hdl,    \* r.fs: the handler wrapper registered with the engine (or NoHandler)
    opts,   \* r.fs: the options bound with AnyVar, in registration order
    mem,    \* the options instances allocated by parseOptions (reflect.New)
    ret,    \* the last Router call: [op, err, in, n, nopts, nmem, groups]: its
            \* result and input, the registration panics recovered so far, how
            \* many options and instances there were before the call, and the
            \* Group and Stmt calls made so far
    trace,  \* what the callables observed during the last Run
    dtyp,   \* parseDefault under test: the declared type
    dlit,   \* parseDefault under test: the dft literal
    dsep,   \* parseDefault under test: the separators
    dres,   \* parseDefault under test: the result (or Pending)
    fs,     \* r.fs: the scope the router registers into, as its path from
            \* the root scope (mws, hdl and opts are the contents of that scope)
    frames  \* the Group and Stmt calls whose closure is running, outermost
            \* first: the local fs of each call and the contents of that scope

vars == <<mws, hdl, opts, mem, ret, trace, dtyp, dlit, dsep, dres, fs, frames>>

(***************************************************************************)
(* Bounds of the model.                                                    *)
(***************************************************************************)
MaxEntries == 2     \* entries joined into one composite dft literal
MaxMw == 2          \* middlewares registered in one scope
MaxCalls == 2       \* times a middleware invokes its continuation in one run
MaxPanics == 1      \* registration panics (of Use, Handle) recovered on one router
MaxDepth == 2       \* Group and Stmt calls nested in one another
MaxGroups == 2      \* Group and Stmt calls made on one router

\* Op applied to the value of e (a name for a value that is used many times).
With(e, Op(_)) == CHOOSE y \in {Op(v) : v \in {e}} : TRUE

(***************************************************************************)
(* Strings.                                                                *)
(***************************************************************************)
Digits == <<"0", "1", "2", "3", "4", "5", "6", "7", "8", "9">>

IsDigit(c) == \E i \in 1..Len(Digits) : Digits[i] = c

DigitVal(c) == (CHOOSE i \in 1..Len(Digits) : Digits[i] = c) - 1

\* strings.TrimSpace: cuts leading and trailing white space.
TrimSpace(s) ==
    LET isSp(c) == c \in {" ", "\t", "\n", "\r"}
        keep == {i \in 1..Len(s) : ~isSp(s[i])}
    IN  IF keep = {} THEN <<>>
        ELSE LET lo == CHOOSE i \in keep : \A j \in keep : i <= j
                 hi == CHOOSE i \in keep : \A j \in keep : j <= i
             IN  SubSeq(s, lo, hi)

\* strings.Split(s, sep) for a one-character separator: the pieces between
\* consecutive separators, empty pieces kept; Split("", sep) is [""].
Split(s, c) ==
    LET RECURSIVE scan(_, _, _)
        scan(i, cur, acc) ==
            IF i > Len(s) THEN Append(acc, cur)
            ELSE IF s[i] = c THEN scan(i + 1, <<>>, Append(acc, cur))
            ELSE scan(i + 1, Append(cur, s[i]), acc)
    IN  scan(1, <<>>, <<>>)

(***************************************************************************)
(* Values.  A scalar is [t, n, d, s]: its kind, its number (an integer, a  *)
(* bool as 0/1, a float's decimal mantissa), a float's count of fractional *)
(* digits, and a string's characters.                                      *)
(***************************************************************************)
VInt(n) == [t |-> "int", n |-> n, d |-> 0, s |-> <<>>]
VUint(n) == [t |-> "uint", n |-> n, d |-> 0, s |-> <<>>]
VBool(b) == [t |-> "bool", n |-> IF b THEN 1 ELSE 0, d |-> 0, s |-> <<>>]
VStr(s) == [t |-> "string", n |-> 0, d |-> 0, s |-> s]
VSlice(elems) == [t |-> "slice", elems |-> elems]
VMap(m) == [t |-> "map", m |-> m]
Nil == [t |-> "nil"]

\* A float64 held as mantissa / 10^d, trailing fractional zeros dropped.
RECURSIVE VFloat(_, _)
VFloat(n, d) ==
    IF d > 0 /\ n % 10 = 0 THEN VFloat(n \div 10, d - 1)
    ELSE [t |-> "float", n |-> n, d |-> d, s |-> <<>>]

Ok(v) == [err |-> "", val |-> v]
Fail(e) == [err |-> e, val |-> Nil]

(***************************************************************************)
(* Types (reflect.Type).  A field type is [k, w, key, elem]: its kind, its *)
(* width in bits, and a map's key type and a map's or slice's element type.*)
(***************************************************************************)
NoType == [k |-> "none"]
TInt(w) == [k |-> "int", w |-> w, key |-> NoType, elem |-> NoType]
TUint(w) == [k |-> "uint", w |-> w, key |-> NoType, elem |-> NoType]
TFloat64 == [k |-> "float", w |-> 64, key |-> NoType, elem |-> NoType]
TBool == [k |-> "bool", w |-> 0, key |-> NoType, elem |-> NoType]
TString == [k |-> "string", w |-> 0, key |-> NoType, elem |-> NoType]
TChan == [k |-> "chan", w |-> 0, key |-> NoType, elem |-> NoType]
TSlice(e) == [k |-> "slice", w |-> 0, key |-> NoType, elem |-> e]
TMap(kt, vt) == [k |-> "map", w |-> 0, key |-> kt, elem |-> vt]

(***************************************************************************)
(* strconv.  The literals of the model are written over digits, signs, the *)
(* dot, letters and separators; ParseFloat is modelled on the literals     *)
(* without exponent, hexadecimal, infinity and NaN forms.                  *)
(***************************************************************************)
RECURSIVE DecValue(_)
DecValue(s) ==
    IF s = <<>> THEN 0
    ELSE 10 * DecValue(SubSeq(s, 1, Len(s) - 1)) + DigitVal(s[Len(s)])

AllDigits(s) == \A i \in 1..Len(s) : IsDigit(s[i])

\* strconv.ParseUint(s, 10, 64): one or more digits, no sign.
ParseUint(s) ==
    IF s # <<>> /\ AllDigits(s) THEN Ok(VUint(DecValue(s)))
    ELSE Fail("strconv.ParseUint: invalid syntax")

\* strconv.ParseInt(s, 10, 64): an optional sign, then one or more digits.
ParseInt(s) ==
    LET signed == s # <<>> /\ s[1] \in {"+", "-"}
        body == IF signed THEN Tail(s) ELSE s
    IN  IF body # <<>> /\ AllDigits(body)
        THEN Ok(VInt(IF signed /\ s[1] = "-" THEN 0 - DecValue(body) ELSE DecValue(body)))
        ELSE Fail("strconv.ParseInt: invalid syntax")

\* strconv.ParseFloat(s, 64) on decimal literals: an optional sign, digits
\* with at most one dot, at least one digit.
ParseFloat(s) ==
    LET signed == s # <<>> /\ s[1] \in {"+", "-"}
        body == IF signed THEN Tail(s) ELSE s
        dots == {i \in 1..Len(body) : body[i] = "."}
        digs == SelectSeq(body, IsDigit)
        wellFormed == /\ digs # <<>>
                      /\ Cardinality(dots) <= 1
                      /\ \A i \in 1..Len(body) : IsDigit(body[i]) \/ body[i] = "."
        frac == IF dots = {} THEN 0 ELSE Len(body) - (CHOOSE i \in dots : TRUE)
        mant == DecValue(digs)
    IN  IF wellFormed
        THEN Ok(VFloat(IF signed /\ s[1] = "-" THEN 0 - mant ELSE mant, frac))
        ELSE Fail("strconv.ParseFloat: invalid syntax")

\* strconv.ParseBool: exactly the literals 1 t T TRUE true True and
\* 0 f F FALSE false False.
ParseBool(s) ==
    IF s \in {<<"1">>, <<"t">>, <<"T">>, <<"T", "R", "U", "E">>,
              <<"t", "r", "u", "e">>, <<"T", "r", "u", "e">>}
    THEN Ok(VBool(TRUE))
    ELSE IF s \in {<<"0">>, <<"f">>, <<"F">>, <<"F", "A", "L", "S", "E">>,
                   <<"f", "a", "l", "s", "e">>, <<"F", "a", "l", "s", "e">>}
    THEN Ok(VBool(FALSE))
    ELSE Fail("strconv.ParseBool: invalid syntax")

\* 2^w.
RECURSIVE Pow2(_)
Pow2(w) == IF w = 0 THEN 1 ELSE 2 * Pow2(w - 1)

\* reflect.Value.Convert(typ) of a parsed value: an int64 or uint64 is
\* truncated to the width of the declared integer type (two's complement);
\* every literal of the model is below 2^31, so that only the widths under
\* 32 bits can truncate.  The other kinds keep their value.
Convert(v, typ) ==
    IF typ.k = "int" /\ v.t = "int"
    THEN IF typ.w >= 32 THEN v
         ELSE VInt(((v.n + Pow2(typ.w - 1)) % Pow2(typ.w)) - Pow2(typ.w - 1))
    ELSE IF typ.k = "uint" /\ v.t = "uint"
    THEN IF typ.w >= 32 THEN v ELSE VUint(v.n % Pow2(typ.w))
    ELSE v

(***************************************************************************)
(* parseDefault.                                                           *)
(***************************************************************************)
\* The separator a slice literal is split on: sep[0], "," by default; for a
\* slice of maps sep[2], ";" by default.
sliceSeperator(elemTyp, sep) ==
    IF elemTyp.k = "map"
    THEN IF Len(sep) > 2 THEN sep[3] ELSE ";"
    ELSE IF Len(sep) > 0 THEN sep[1] ELSE ","

\* The separators of a map literal: entries on sep[0] ("," by default), key
\* and value on sep[1] (":" by default).
mapSepElem(sep) == IF Len(sep) > 0 THEN sep[1] ELSE ","

mapSepKV(sep) == IF Len(sep) > 1 THEN sep[2] ELSE ":"

\* m.SetMapIndex(key, val).
SetMapIndex(m, key, val) ==
    [k \in DOMAIN m \cup {key} |-> IF k = key THEN val ELSE m[k]]

\* A faulty variant of mapStore: a repeated key always replaces its value.
mapStoreReplace(m, key, val, vt) == SetMapIndex(m, key, val)

\* The store of one parsed entry into the map under construction: a slice
\* value is appended to the slice already under the key, any other value
\* replaces it.
mapStore(m, key, val, vt) ==
    IF vt.k = "slice" /\ key \in DOMAIN m
    THEN SetMapIndex(m, key, VSlice(m[key].elems \o val.elems))
    ELSE SetMapIndex(m, key, val)

RECURSIVE parseDefault(_, _, _)
RECURSIVE parseSliceElems(_, _, _, _, _)
RECURSIVE parseMapElems(_, _, _, _, _)

\* The loop over the pieces of a slice literal: the first error ends it.
parseSliceElems(elemTyp, elems, sep, i, ls) ==
    IF i > Len(elems) THEN Ok(VSlice(ls))
    ELSE With(parseDefault(elemTyp, TrimSpace(elems[i]), sep), LAMBDA r :
             IF r.err # "" THEN Fail(r.err)
             ELSE parseSliceElems(elemTyp, elems, sep, i + 1,
                                  Append(ls, Convert(r.val, elemTyp))))

\* The loop over the entries of a map literal: the first error ends it.
parseMapElems(typ, elems, sep, i, m) ==
    IF i > Len(elems) THEN Ok(VMap(m))
    ELSE With(Split(elems[i], mapSepKV(sep)), LAMBDA kv :
         IF Len(kv) # 2
         THEN Fail("flagrouter: cannot convert to key value pair")
         ELSE With(parseDefault(typ.key, TrimSpace(kv[1]), sep), LAMBDA key :
              IF key.err # "" THEN Fail(key.err)
              ELSE With(parseDefault(typ.elem, TrimSpace(kv[2]), sep), LAMBDA val :
                   IF val.err # "" THEN Fail(val.err)
                   ELSE parseMapElems(typ, elems, sep, i + 1,
                            mapStore(m, Convert(key.val, typ.key),
                                     Convert(val.val, typ.elem), typ.elem)))))

\* parseDefault(typ, dft, sep...) on the kinds of the model (no field of the
\* model implements flags.Parser or is a time.Duration or a time.Time).
parseDefault(typ, dft, sep) ==
    CASE typ.k = "int" -> ParseInt(dft)
      [] typ.k = "uint" -> ParseUint(dft)
      [] typ.k = "float" -> ParseFloat(dft)
      [] typ.k = "bool" -> ParseBool(dft)
      [] typ.k = "string" -> Ok(VStr(dft))
      [] typ.k = "slice" ->
            parseSliceElems(typ.elem, Split(dft, sliceSeperator(typ.elem, sep)),
                            sep, 1, <<>>)
      [] typ.k = "map" ->
            parseMapElems(typ, Split(dft, mapSepElem(sep)), sep, 1, <<>>)
      [] OTHER -> Fail("flagrouter: unsupported type")

(***************************************************************************)
(* Callables and their types.  A func type is [k, name, in, out]: name is  *)
(* "" for an unnamed func type, out the number of results.  A parameter is *)
(* a context.Context, a func type, a struct (an options record, by its     *)
(* index in Records), a pointer, or a field type.                          *)
(***************************************************************************)
TNil == [k |-> "nil"]
TFunc(name, in, out) == [k |-> "func", name |-> name, in |-> in, out |-> out]
TStruct(rec) == [k |-> "struct", rec |-> rec]
TPtr(elem) == [k |-> "ptr", elem |-> elem]

typContext == [k |-> "ctx"]
typEmptyFunc == TFunc("", <<>>, 0)
typHandler == TFunc("flags.Handler", <<typContext>>, 0)
typHandlerFunc == TFunc("", <<typContext>>, 0)
typMiddleware == TFunc("flags.Middleware", <<typContext, typHandler>>, 0)
typMiddlewareFunc == TFunc("", <<typContext, typHandler>>, 0)

\* reflect.Type.ConvertibleTo between func types: the underlying types are
\* identical (the same parameter and result types); any other type of the
\* model converts only to itself.
ConvertibleTo(t, u) ==
    IF t.k = "func" /\ u.k = "func" THEN t.in = u.in /\ t.out = u.out
    ELSE t = u

(***************************************************************************)
(* Options records.  A field is its name, whether it is exported, its type *)
(* and its tag: short, long, dft (hasDft: the tag has a dft key), sep.     *)
(***************************************************************************)
Fld(name, exported, typ, short, long, hasDft, dft, sep) ==
    [name |-> name, exported |-> exported, typ |-> typ, short |-> short,
     long |-> long, hasDft |-> hasDft, dft |-> dft, sep |-> sep]

fInt == Fld("Int", TRUE, TInt(64), <<"i">>, <<"i", "n", "t">>, TRUE, <<"-", "1", "1", "1">>, <<>>)
fSmall == Fld("Small", TRUE, TInt(8), <<"w">>, <<>>, TRUE, <<"7">>, <<>>)
fList == Fld("List", TRUE, TSlice(TInt(64)), <<"l">>, <<>>, TRUE, <<"1", "|", "2">>, <<"|">>)
fNoDft == Fld("Plain", TRUE, TInt(64), <<"p">>, <<>>, FALSE, <<>>, <<>>)
fFloatPos == Fld("Float", TRUE, TFloat64, <<>>, <<>>, TRUE, <<"1", ".", "1", "1", "1">>, <<>>)
fBoolPos == Fld("Bool", TRUE, TBool, <<>>, <<>>, TRUE, <<"f", "a", "l", "s", "e">>, <<>>)
fStrPos == Fld("Str", TRUE, TString, <<>>, <<>>, TRUE, <<"a", "b", "c">>, <<>>)
fBadShort == Fld("X", TRUE, TInt(64), <<"a", "b">>, <<>>, FALSE, <<>>, <<>>)
fBadInt == Fld("X", TRUE, TInt(64), <<"x">>, <<>>, TRUE, <<"1", "x">>, <<>>)
fBadBool == Fld("X", TRUE, TBool, <<>>, <<"f", "l", "a", "g">>, TRUE, <<"m", "a", "y", "b", "e">>, <<>>)
fBadFloat == Fld("X", TRUE, TFloat64, <<"f">>, <<>>, TRUE, <<"1", ".", "x">>, <<>>)
fHidden == Fld("hidden", FALSE, TInt(64), <<"a", "b">>, <<>>, TRUE, <<"z">>, <<>>)
fBare == Fld("Bare", TRUE, TInt(64), <<>>, <<>>, FALSE, <<>>, <<>>)
fBareBadDft == Fld("Bare", TRUE, TInt(64), <<>>, <<>>, TRUE, <<"z", "z">>, <<>>)
fBareChan == Fld("Bare", TRUE, TChan, <<>>, <<>>, TRUE, <<"c">>, <<>>)
fBareList == Fld("Bare", TRUE, TSlice(TInt(64)), <<>>, <<>>, TRUE, <<"1", ",", "2">>, <<"|">>)
fName == Fld("Name", TRUE, TString, <<>>, <<"n", "a", "m", "e">>, FALSE, <<>>, <<>>)
fUint == Fld("Uint", TRUE, TUint(8), <<"u">>, <<>>, TRUE, <<"9">>, <<>>)
fDebug == Fld("Debug", TRUE, TBool, <<"d">>, <<"d", "e", "b", "u", "g">>, TRUE, <<"t", "r", "u", "e">>, <<>>)
fWide == Fld("Wide", TRUE, TInt(8), <<"v">>, <<>>, TRUE, <<"3", "0", "0">>, <<>>)
fUWide == Fld("UWide", TRUE, TUint(8), <<"k">>, <<>>, TRUE, <<"2", "5", "6">>, <<>>)
fWideList == Fld("WideList", TRUE, TSlice(TInt(8)), <<"e">>, <<>>, TRUE,
                 <<"1", ",", "2", "0", "0">>, <<>>)
fWideMap == Fld("WideMap", TRUE, TMap(TInt(8), TInt(8)), <<"m">>, <<>>, TRUE,
                <<"1", ":", "-", "1", "2", "9">>, <<>>)
fEdge == Fld("Edge", TRUE, TInt(8), <<"g">>, <<>>, TRUE, <<"-", "1", "2", "8">>, <<>>)

\* The options records of the model, by index.
Records ==
    << <<fInt>>,                                \* 1
       <<fFloatPos, fInt, fBoolPos, fStrPos>>,  \* 2: the record of TestPosition
       <<fSmall, fList, fNoDft>>,               \* 3
       <<fBadShort>>,                           \* 4
       <<fSmall, fBadInt>>,                     \* 5
       <<fBadBool>>,                            \* 6
       <<fBadFloat>>,                           \* 7
       <<fHidden, fBare, fName>>,               \* 8
       <<fBareBadDft>>,                         \* 9
       <<fBareChan>>,                           \* 10
       <<fBareList, fUint>>,                    \* 11
       <<fHidden, fBare>>,                      \* 12: no field is bound
       <<fUint, fDebug>>,                       \* 13
       <<fWide>>,                               \* 14
       <<fUWide, fEdge>>,                       \* 15
       <<fWideList>>,                           \* 16
       <<fWideMap>> >>                          \* 17

\* The zero value of a field type.
ZeroOf(typ) ==
    CASE typ.k = "int" -> VInt(0)
      [] typ.k = "uint" -> VUint(0)
      [] typ.k = "float" -> VFloat(0, 0)
      [] typ.k = "bool" -> VBool(FALSE)
      [] typ.k = "string" -> VStr(<<>>)
      [] typ.k = "slice" -> VSlice(<<>>)
      [] typ.k = "map" -> VMap(<<>>)
      [] OTHER -> Nil

(***************************************************************************)
(* The engine's option registration (flags.FlagSet.AnyVar), from the       *)
(* README: an option whose short or long identifier is already bound in    *)
(* the scope panics.                                                       *)
(***************************************************************************)
fsAnyVar(o, e) ==
    IF \E i \in 1..Len(o) : e.short # <<>> /\ o[i].short = e.short
    THEN [opts |-> o, err |-> "panic: flags: duplicated short option"]
    ELSE IF \E i \in 1..Len(o) : e.long # <<>> /\ o[i].long = e.long
    THEN [opts |-> o, err |-> "panic: flags: duplicated long option"]
    ELSE [opts |-> Append(o, e), err |-> ""]

(***************************************************************************)
(* The tag metadata parser and the argument binder.                        *)
(***************************************************************************)
\* strings.TrimSpace(sep), one separator per character.
tagSep(field) == TrimSpace(field.sep)

\* parseTag(field): [err, short, long, dft, hasDft, zeroDft, sep]; dft is
\* the coerced default, hasDft says that it is not nil.
parseTag(field) ==
    IF Len(field.short) > 1
    THEN [err |-> "flagrouter: invalid short tag: length must be 1",
          short |-> <<>>, long |-> <<>>, dft |-> Nil, hasDft |-> FALSE,
          zeroDft |-> FALSE, sep |-> <<>>]
    ELSE With(IF field.hasDft /\ field.dft # <<>>
              THEN parseDefault(field.typ, field.dft, tagSep(field))
              ELSE Ok(Nil), LAMBDA d :
         [err |-> d.err, short |-> field.short, long |-> field.long,
          dft |-> d.val, hasDft |-> d.val # Nil,
          zeroDft |-> field.hasDft, sep |-> tagSep(field)])

\* A faulty variant of skipField: no field is left alone.
skipNever(tag) == FALSE

\* Whether parseField leaves the field alone after parseTag: it has neither
\* a short nor a long identifier.
skipField(tag) == tag.short = <<>> /\ tag.long = <<>>

\* parseField(field, val) on engine options o: [opts, err].  inst and i say
\* which storage val.Addr() is: field i of instance inst.
parseField(o, field, inst, i) ==
    IF ~field.exported THEN [opts |-> o, err |-> ""]
    ELSE With(parseTag(field), LAMBDA tag :
         IF tag.err # "" THEN [opts |-> o, err |-> tag.err]
         ELSE IF skipField(tag) THEN [opts |-> o, err |-> ""]
         ELSE fsAnyVar(o, [inst |-> inst, fld |-> i, short |-> tag.short,
                           long |-> tag.long, hasDft |-> tag.hasDft,
                           dft |-> IF tag.hasDft THEN Convert(tag.dft, field.typ)
                                   ELSE Nil,
                           zeroDft |-> tag.zeroDft, sep |-> tag.sep]))

\* The loop of parseOptions over the fields, from field i on.
RECURSIVE parseFields(_, _, _, _)
parseFields(o, fields, inst, i) ==
    IF i > Len(fields) THEN [opts |-> o, err |-> ""]
    ELSE With(parseField(o, fields[i], inst, i), LAMBDA r :
         IF r.err # "" THEN r
         ELSE parseFields(r.opts, fields, inst, i + 1))

\* What parseOptions returns beside the error: the struct value itself or
\* its address; both refer to the storage of instance inst.
optionsValue(inst, isPtr) == [inst |-> inst, isPtr |-> isPtr]

NoParam == [inst |-> 0, isPtr |-> FALSE]

\* parseOptions(arg, isPtr) in router state st = [opts, mem]: allocates the
\* instance (reflect.New), binds its fields; [opts, mem, err, param].
parseOptions(st, rec, isPtr) ==
    With(parseFields(st.opts, Records[rec], Len(st.mem) + 1, 1), LAMBDA r :
        [opts |-> r.opts,
         mem |-> Append(st.mem,
                    [rec |-> rec,
                     vals |-> [i \in 1..Len(Records[rec]) |->
                                  ZeroOf(Records[rec][i].typ)]]),
         err |-> r.err, param |-> optionsValue(Len(st.mem) + 1, isPtr)])

\* parseFuncArgs(arg, who): arg must be a struct or a pointer to a struct.
parseFuncArgs(st, arg, who) ==
    LET isPtr == arg.k = "ptr"
        elem == IF isPtr THEN arg.elem ELSE arg
    IN  IF elem.k # "struct"
        THEN [opts |-> st.opts, mem |-> st.mem,
              err |-> IF who = "middleware"
                      THEN "middleware func arg must be a struct"
                      ELSE "handler func arg must be a struct",
              param |-> NoParam]
        ELSE parseOptions(st, elem.rec, isPtr)

(***************************************************************************)
(* The signature resolver.  A callable is [typ, calls, derive]: its type   *)
(* and what its body does with a continuation: how many times it invokes   *)
(* it, and with which context ("same": the one it received, "add": one     *)
(* derived from it with a value of its own, "fresh": a new background      *)
(* context).  A wrapper is [w, fn, param]: which closure of the source it  *)
(* is, the callable and the bound options value it closes over.            *)
(***************************************************************************)
Callable(typ, calls, derive) == [typ |-> typ, calls |-> calls, derive |-> derive]

Wrapper(w, fn, param) == [w |-> w, fn |-> fn, param |-> param]

NoWrapper == Wrapper("", Callable(TNil, 0, "same"), NoParam)

NoHandler == NoWrapper

\* The result of a resolver call in router state st: the error, the
\* wrapper, and the engine options and instances it leaves behind.
Resolved(st, w) == [err |-> "", w |-> w, opts |-> st.opts, mem |-> st.mem]

Rejected(st, e) == [err |-> e, w |-> NoWrapper, opts |-> st.opts, mem |-> st.mem]

\* A resolver result from a binder result r and the closure kind.
Bound(r, kind, fn) ==
    IF r.err # "" THEN Rejected(r, r.err)
    ELSE Resolved(r, Wrapper(kind, fn, r.param))

\* parseMiddlewareFast(mw, typ): the wrapper kind, "" when no fast path
\* applies; a nil typ panics in typ.ConvertibleTo.
parseMiddlewareFast(typ) ==
    CASE typ = typEmptyFunc -> [err |-> "", w |-> "fEmptyFunc"]
      [] typ = typHandler -> [err |-> "", w |-> "fHandler"]
      [] typ = typHandlerFunc -> [err |-> "", w |-> "fHandlerFunc"]
      [] typ = typMiddleware -> [err |-> "", w |-> "fMiddleware"]
      [] typ = typMiddlewareFunc -> [err |-> "", w |-> "fMiddlewareFunc"]
      [] OTHER ->
            IF typ = TNil
            THEN [err |-> "panic: nil pointer dereference", w |-> ""]
            ELSE IF ConvertibleTo(typ, typEmptyFunc)
            THEN [err |-> "", w |-> "fConvEmptyFunc"]
            ELSE IF ConvertibleTo(typ, typHandler)
            THEN [err |-> "", w |-> "fConvHandler"]
            ELSE IF ConvertibleTo(typ, typMiddleware)
            THEN [err |-> "", w |-> "fConvMiddleware"]
            ELSE [err |-> "", w |-> ""]

\* The type handed to parseFuncArgs by the func(context.Context, arg)
\* branch of parseMiddleware.
ctxOptArg(arg0, arg1) == arg0

\* The slow path of parseMiddleware at two parameters.
parseMiddleware2(st, mw, arg0, arg1) ==
    IF arg0 = typContext
    THEN IF arg1 = typEmptyFunc \/ ConvertibleTo(arg1, typEmptyFunc)
         THEN Resolved(st, Wrapper("sCtxCont", mw, NoParam))
         ELSE IF arg1 = typHandler \/ ConvertibleTo(arg1, typHandler)
         THEN Resolved(st, Wrapper("sCtxContCtx", mw, NoParam))
         ELSE Bound(parseFuncArgs(st, ctxOptArg(arg0, arg1), "middleware"),
                    "sCtxOpt", mw)
    ELSE IF ~ConvertibleTo(arg1, typEmptyFunc)
    THEN Rejected(st, "middleware func with option and handler, the handler must be a func with 0 args and 0 returns")
    ELSE Bound(parseFuncArgs(st, arg0, "middleware"), "sOptCont", mw)

\* A faulty variant of parseMiddleware3: the first and the third parameter
\* are not inspected before the second is bound.
parseMiddleware3Lax(st, mw, arg0, arg1, arg2) ==
    Bound(parseFuncArgs(st, arg1, "middleware"),
          IF ConvertibleTo(arg2, typEmptyFunc) THEN "sCtxOptCont"
          ELSE "sCtxOptContCtx", mw)

\* The slow path of parseMiddleware at three parameters.
parseMiddleware3(st, mw, arg0, arg1, arg2) ==
    IF arg0 # typContext
    THEN Rejected(st, "middleware with context and option and handler, the first arg must be a context")
    ELSE IF ~(ConvertibleTo(arg2, typEmptyFunc) \/ ConvertibleTo(arg2, typHandler))
    THEN Rejected(st, "middleware with context and option and handler, the second arg must be a func() or func(context)")
    ELSE Bound(parseFuncArgs(st, arg1, "middleware"),
               IF ConvertibleTo(arg2, typEmptyFunc) THEN "sCtxOptCont"
               ELSE "sCtxOptContCtx", mw)

\* parseMiddleware(mw) in router state st.
parseMiddleware(st, mw) ==
    LET typ == mw.typ
    IN  With(parseMiddlewareFast(mw.typ), LAMBDA fast :
        IF fast.err # "" THEN Rejected(st, fast.err)
        ELSE IF fast.w # "" THEN Resolved(st, Wrapper(fast.w, mw, NoParam))
        ELSE IF typ.k # "func" THEN Rejected(st, "middleware must be a func")
        ELSE IF typ.out # 0 THEN Rejected(st, "middleware func must return nothing")
        ELSE IF Len(typ.in) > 3
        THEN Rejected(st, "middleware func can only receive no more than 3 args in")
        ELSE IF Len(typ.in) = 0 THEN Resolved(st, Wrapper("sFunc", mw, NoParam))
        ELSE IF Len(typ.in) = 1
        THEN IF typ.in[1] = typEmptyFunc \/ ConvertibleTo(typ.in[1], typEmptyFunc)
             THEN Resolved(st, Wrapper("sCont", mw, NoParam))
             ELSE Bound(parseFuncArgs(st, typ.in[1], "middleware"), "sOpt", mw)
        ELSE IF Len(typ.in) = 2 THEN parseMiddleware2(st, mw, typ.in[1], typ.in[2])
        ELSE parseMiddleware3(st, mw, typ.in[1], typ.in[2], typ.in[3]))

\* The conversion of parseFuncFast's last case,
\* reflect.ValueOf(fn).Convert(typEmptyFunc).Interface().(flags.Handler):
\* Convert panics unless typ converts to func(), and a func() is never a
\* flags.Handler, so that the type assertion panics otherwise.
convHandler(typ) ==
    IF ~ConvertibleTo(typ, typEmptyFunc)
    THEN [err |-> "panic: reflect: value cannot be converted to type func()", w |-> ""]
    ELSE [err |-> "panic: interface conversion: interface {} is func(), not flags.Handler",
          w |-> ""]

\* parseFuncFast(fn, typ).
parseFuncFast(typ) ==
    CASE typ = typEmptyFunc -> [err |-> "", w |-> "hEmptyFunc"]
      [] typ = typHandler -> [err |-> "", w |-> "hHandler"]
      [] typ = typHandlerFunc -> [err |-> "", w |-> "hHandlerFunc"]
      [] OTHER ->
            IF typ = TNil
            THEN [err |-> "panic: nil pointer dereference", w |-> ""]
            ELSE IF ConvertibleTo(typ, typEmptyFunc)
            THEN [err |-> "", w |-> "hConvEmptyFunc"]
            ELSE IF ConvertibleTo(typ, typHandler) THEN convHandler(typ)
            ELSE [err |-> "", w |-> ""]

\* parseFunc(fn) in router state st.
parseFunc(st, fn) ==
    LET typ == fn.typ
    IN  With(parseFuncFast(fn.typ), LAMBDA fast :
        IF fast.err # "" THEN Rejected(st, fast.err)
        ELSE IF fast.w # "" THEN Resolved(st, Wrapper(fast.w, fn, NoParam))
        ELSE IF typ.k # "func" THEN Rejected(st, "handler must be a func")
        ELSE IF typ.out # 0 THEN Rejected(st, "handler func must return nothing")
        ELSE IF Len(typ.in) > 2
        THEN Rejected(st, "handler func can only receive 0 or 1 or 2 arg in")
        ELSE IF Len(typ.in) = 0 THEN Resolved(st, Wrapper("hFunc", fn, NoParam))
        ELSE IF Len(typ.in) = 1
        THEN Bound(parseFuncArgs(st, typ.in[1], "handler"), "hOpt", fn)
        ELSE IF typ.in[1] # typContext
        THEN Rejected(st, "handler func with 2 args in, the first arg must be a context.Context")
        ELSE Bound(parseFuncArgs(st, typ.in[2], "handler"), "hCtxOpt", fn))

(***************************************************************************)
(* The closures the resolver returns.  A middleware closure is             *)
(* [ctx, arg, cont, after]: whether it passes the context and the bound    *)
(* options value to the callable, which continuation it passes ("none",    *)
(* "zero": func() { handler(ctx) }, "ctx": handler itself), and whether it *)
(* calls handler(ctx) itself after the callable has returned.              *)
(***************************************************************************)
Closure(ctx, arg, cont, after) == [ctx |-> ctx, arg |-> arg, cont |-> cont, after |-> after]

\* The closures of parseMiddlewareFast.
fastClosure(kind) ==
    CASE kind = "fEmptyFunc" -> Closure(FALSE, FALSE, "none", TRUE)
      [] kind = "fHandler" -> Closure(TRUE, FALSE, "none", TRUE)
      [] kind = "fHandlerFunc" -> Closure(TRUE, FALSE, "none", TRUE)
      [] kind = "fMiddleware" -> Closure(TRUE, FALSE, "ctx", FALSE)
      [] kind = "fMiddlewareFunc" -> Closure(TRUE, FALSE, "ctx", FALSE)
      [] kind = "fConvEmptyFunc" -> Closure(FALSE, FALSE, "none", TRUE)
      [] kind = "fConvHandler" -> Closure(TRUE, FALSE, "none", TRUE)
      [] kind = "fConvMiddleware" -> Closure(TRUE, FALSE, "ctx", FALSE)

\* The closures of parseMiddleware's slow path.
slowClosure(kind) ==
    CASE kind = "sFunc" -> Closure(FALSE, FALSE, "none", TRUE)
      [] kind = "sCont" -> Closure(FALSE, FALSE, "zero", FALSE)
      [] kind = "sOpt" -> Closure(FALSE, TRUE, "none", TRUE)
      [] kind = "sCtxCont" -> Closure(TRUE, FALSE, "zero", FALSE)
      [] kind = "sCtxContCtx" -> Closure(TRUE, FALSE, "ctx", FALSE)
      [] kind = "sCtxOpt" -> Closure(TRUE, TRUE, "none", TRUE)
      [] kind = "sOptCont" -> Closure(FALSE, TRUE, "zero", FALSE)
      [] kind = "sCtxOptCont" -> Closure(TRUE, TRUE, "zero", FALSE)
      [] kind = "sCtxOptContCtx" -> Closure(TRUE, TRUE, "ctx", FALSE)

FastKinds == {"fEmptyFunc", "fHandler", "fHandlerFunc", "fMiddleware",
              "fMiddlewareFunc", "fConvEmptyFunc", "fConvHandler", "fConvMiddleware"}

\* The closure of a flags.Middleware the resolver returned.
mwClosure(kind) == IF kind \in FastKinds THEN fastClosure(kind) ELSE slowClosure(kind)

\* The closures of parseFunc and parseFuncFast: [ctx, arg].
hClosure(kind) ==
    CASE kind = "hEmptyFunc" -> [ctx |-> FALSE, arg |-> FALSE]
      [] kind = "hHandler" -> [ctx |-> TRUE, arg |-> FALSE]
      [] kind = "hHandlerFunc" -> [ctx |-> TRUE, arg |-> FALSE]
      [] kind = "hConvEmptyFunc" -> [ctx |-> FALSE, arg |-> FALSE]
      [] kind = "hFunc" -> [ctx |-> FALSE, arg |-> FALSE]
      [] kind = "hOpt" -> [ctx |-> FALSE, arg |-> TRUE]
      [] kind = "hCtxOpt" -> [ctx |-> TRUE, arg |-> TRUE]

(***************************************************************************)
(* Contexts are sets of keys.  Run adds the router's key; the middleware   *)
(* registered at position i derives contexts with a key of its own.        *)
(***************************************************************************)
Key(name, i) == <<name, i>>

ctxRouterKey == Key("router", 0)

putRouter(ctx) == ctx \cup {ctxRouterKey}

\* The context the body of callable fn, registered at position i, passes to
\* a context-accepting continuation when it has received ctx.
Derive(fn, i, ctx) ==
    CASE fn.derive = "add" -> ctx \cup {Key("mw", i)}
      [] fn.derive = "fresh" -> {}
      [] OTHER -> ctx

\* A faulty variant of contCtx: every continuation is func() { handler(ctx) }
\* over the wrapper's own ctx, the context given by the callable is dropped.
contCtxOwn(c, given, ctx) == ctx

\* The context the next wrapper is entered with when the callable invokes
\* the continuation it was given: a "zero" continuation is
\* func() { handler(ctx) } over the wrapper's own ctx, a "ctx" continuation
\* is handler itself and takes the context given by the callable.
contCtx(c, given, ctx) == IF c.cont = "ctx" THEN given ELSE ctx

\* Faulty variants of afterCalls: a wrapper that calls handler(ctx) after
\* every callable, one that never does.
afterAlways(c) == 1

afterNever(c) == 0

\* How many times the wrapper itself calls handler(ctx) after the callable
\* has returned.
afterCalls(c) == IF c.after THEN 1 ELSE 0

\* A faulty variant of argSeen: a struct value parameter is the copy taken
\* when the callable was registered, all fields zero.
argSeenCopy(param, memv) ==
    IF param.isPtr THEN memv[param.inst].vals
    ELSE [i \in DOMAIN memv[param.inst].vals |->
             ZeroOf(Records[memv[param.inst].rec][i].typ)]

\* What function.Call hands the callable for the bound options value: the
\* contents of the instance at the time of the call, for a struct value
\* parameter as for a pointer.
argSeen(param, memv) == memv[param.inst].vals

(***************************************************************************)
(* One run of the chain.  An event is what one callable observes:          *)
(* at: its position (Len(ws) + 1 for the handler), ev: "pre" when the      *)
(* middleware is entered, "post" when its body ends, "handler";            *)
(* wctx: the context its wrapper received; ctx, arg: what the callable     *)
(* itself was given.                                                       *)
(***************************************************************************)
Event(at, ev, wctx, hasCtx, hasArg, param, memv) ==
    [at |-> at, ev |-> ev, wctx |-> wctx,
     hasCtx |-> hasCtx, ctx |-> IF hasCtx THEN wctx ELSE {},
     hasArg |-> hasArg, arg |-> IF hasArg THEN argSeen(param, memv) ELSE <<>>]

RECURSIVE Repeat(_, _)
Repeat(s, n) == IF n = 0 THEN <<>> ELSE s \o Repeat(s, n - 1)

\* The wrapper at position i is called with ctx; the handler wrapper is at
\* position Len(ws) + 1.  The engine chains the wrappers in registration
\* order: the handler each middleware wrapper receives is the next wrapper.
RECURSIVE runChain(_, _, _, _, _)
runChain(ws, h, memv, i, ctx) ==
    IF i > Len(ws)
    THEN With(hClosure(h.w), LAMBDA c :
             <<Event(i, "handler", ctx, c.ctx, c.arg, h.param, memv)>>)
    ELSE With(mwClosure(ws[i].w), LAMBDA c :
             <<Event(i, "pre", ctx, c.ctx, c.arg, ws[i].param, memv)>>
             \o Repeat(runChain(ws, h, memv, i + 1,
                                contCtx(c, Derive(ws[i].fn, i, ctx), ctx)),
                       IF c.cont = "none" THEN 0 ELSE ws[i].fn.calls)
             \o <<Event(i, "post", ctx, c.ctx, c.arg, ws[i].param, memv)>>
             \o Repeat(runChain(ws, h, memv, i + 1, ctx), afterCalls(c)))

(***************************************************************************)
(* The engine (flags.FlagSet): Use, Handle and Run.  A command-line token  *)
(* is [opt, val]: an option by its short or long identifier with the       *)
(* literal of its value, or a positional literal (opt empty).              *)
(***************************************************************************)
fsUse(ms, m) == Append(ms, m)

fsHandle(h) == h

Tok(opt, val) == [opt |-> opt, val |-> val]

\* Whether the command line supplies bound option e.
Supplied(e, args) ==
    \E k \in 1..Len(args) :
        args[k].opt # <<>> /\ (args[k].opt = e.short \/ args[k].opt = e.long)

\* Every option the command line omits is set to its default (README: dft);
\* an explicitly empty dft sets the zero value.
fsDefaults(o, memv, args) ==
    [n \in DOMAIN memv |->
        [memv[n] EXCEPT !.vals =
            [f \in DOMAIN memv[n].vals |->
                LET js == {j \in 1..Len(o) : /\ o[j].inst = n /\ o[j].fld = f
                                            /\ ~Supplied(o[j], args)}
                IN  IF js = {} THEN memv[n].vals[f]
                    ELSE LET e == o[CHOOSE j \in js : TRUE]
                         IN  IF e.hasDft THEN e.dft
                             ELSE IF e.zeroDft
                             THEN ZeroOf(Records[memv[n].rec][f].typ)
                             ELSE memv[n].vals[f]]]]

\* The engine's conversion of a command-line value for bound option e: the
\* literal is read as a value of the type of the storage it was bound to.
fsValue(e, memv, val) ==
    With(parseDefault(Records[memv[e.inst].rec][e.fld].typ, val, e.sep), LAMBDA v :
        IF v.err # "" THEN v
        ELSE Ok(Convert(v.val, Records[memv[e.inst].rec][e.fld].typ)))

\* The store of a parsed value through the address option e was bound to.
fsStore(e, memv, v) == [memv EXCEPT ![e.inst].vals[e.fld] = v]

\* The tokens are parsed in order: an option's value is stored through the
\* address it was bound to, an unknown option is an error.  No positional
\* storage is ever bound by this binder; strict says whether the engine
\* refuses the positional tokens or passes over them.
RECURSIVE fsParse(_, _, _, _, _)
fsParse(o, memv, args, k, strict) ==
    IF k > Len(args) THEN [mem |-> memv, err |-> ""]
    ELSE IF args[k].opt = <<>>
    THEN IF strict THEN [mem |-> memv, err |-> "flags: unexpected argument"]
         ELSE fsParse(o, memv, args, k + 1, strict)
    ELSE With({j \in 1..Len(o) :
                  args[k].opt = o[j].short \/ args[k].opt = o[j].long}, LAMBDA js :
         IF js = {} THEN [mem |-> memv, err |-> "flags: unknown option"]
         ELSE With(fsValue(o[CHOOSE j \in js : TRUE], memv, args[k].val), LAMBDA v :
              IF v.err # "" THEN [mem |-> memv, err |-> "flags: invalid value"]
              ELSE fsParse(o, fsStore(o[CHOOSE j \in js : TRUE], memv, v.val),
                           args, k + 1, strict)))

\* flags.FlagSet.Run(ctx, args...): [err, mem, trace].
fsRun(ms, h, o, memv, ctx, args, strict) ==
    With(fsParse(o, fsDefaults(o, memv, args), args, 1, strict), LAMBDA p :
        IF p.err # "" THEN [err |-> p.err, mem |-> memv, trace |-> <<>>]
        ELSE IF h = NoHandler
        THEN [err |-> "flags: no exec func", mem |-> p.mem, trace |-> <<>>]
        ELSE [err |-> "", mem |-> p.mem, trace |-> runChain(ms, h, p.mem, 1, ctx)])

(***************************************************************************)
(* The Router operations.                                                  *)
(***************************************************************************)
\* The loop of Use over its middlewares, from the i-th on: the first one
\* that does not resolve panics, the ones before it stay registered.
RECURSIVE useLoop(_, _, _)
useLoop(st, middlewares, i) ==
    IF i > Len(middlewares) THEN [st EXCEPT !.err = ""]
    ELSE With(parseMiddleware(st, middlewares[i]), LAMBDA r :
         IF r.err # ""
         THEN [mws |-> st.mws, opts |-> r.opts, mem |-> r.mem, err |-> r.err]
         ELSE useLoop([mws |-> fsUse(st.mws, r.w), opts |-> r.opts,
                       mem |-> r.mem, err |-> ""], middlewares, i + 1))

\* The record of a Router call, kept with the state it was made in.
Call(op, err, in, panics) ==
    [op |-> op, err |-> err, in |-> in, n |-> panics,
     nopts |-> Len(opts), nmem |-> Len(mem),
     groups |-> IF op \in {"Group", "Stmt"} THEN ret.groups + 1 ELSE ret.groups]

\* The Group and Stmt calls in progress after a registration that ended
\* with err: a panic leaves them all on its way to the caller that recovers
\* it, and none of them runs anything on the way (no defer).
unwind(err, fr) == IF err # "" THEN <<>> ELSE fr

\* r.Use(middlewares...).  A panic is recovered by the caller.
Use(middlewares) ==
    /\ Len(mws) + Len(middlewares) <= MaxMw
    /\ \E r \in {useLoop([mws |-> mws, opts |-> opts, mem |-> mem, err |-> ""],
                        middlewares, 1)} :
           /\ r.err # "" => ret.n < MaxPanics
           /\ mws' = r.mws
           /\ opts' = r.opts
           /\ mem' = r.mem
           /\ ret' = Call("Use", r.err, middlewares,
                          IF r.err # "" THEN ret.n + 1 ELSE ret.n)
           /\ frames' = unwind(r.err, frames)
    /\ trace' = <<>>
    /\ UNCHANGED <<hdl, dtyp, dlit, dsep, dres, fs>>

\* r.Handle(handler), on a scope without a handler.  A panic is recovered by
\* the caller.
Handle(handler) ==
    /\ hdl = NoHandler
    /\ \E r \in {parseFunc([opts |-> opts, mem |-> mem], handler)} :
           /\ r.err # "" => ret.n < MaxPanics
           /\ hdl' = IF r.err # "" THEN hdl ELSE fsHandle(r.w)
           /\ opts' = r.opts
           /\ mem' = r.mem
           /\ ret' = Call("Handle", r.err, handler,
                          IF r.err # "" THEN ret.n + 1 ELSE ret.n)
           /\ frames' = unwind(r.err, frames)
    /\ trace' = <<>>
    /\ UNCHANGED <<mws, dtyp, dlit, dsep, dres, fs>>

\* r.Run(ctx, args...).
Run(ctx, args, strict) ==
    /\ \E r \in {fsRun(mws, hdl, opts, mem, putRouter(ctx), args, strict)} :
           /\ mem' = r.mem
           /\ trace' = r.trace
           /\ ret' = Call("Run", r.err, [ctx |-> ctx, args |-> args], ret.n)
    /\ UNCHANGED <<mws, hdl, opts, dtyp, dlit, dsep, dres, fs, frames>>

\* The engine's child scopes, fs.Cmd(name, desc) and fs.Stmt(), as the
\* router sees their contents: the chain of the parent applies in the
\* child, which has no handler of its own yet.
fsCmd(ms, o) == [mws |-> ms, hdl |-> NoHandler, opts |-> o]

fsStmt(ms, o) == [mws |-> ms, hdl |-> NoHandler, opts |-> o]

\* The frame of a Group or Stmt call: its local fs, with the contents of
\* that scope.
Frame == [fs |-> fs, mws |-> mws, hdl |-> hdl, opts |-> opts]

\* The first half of Group and Stmt: fs := r.fs; r.fs = child; then the
\* closure starts (its calls are the steps that follow).
enter(op, name, child) ==
    /\ Len(frames) < MaxDepth
    /\ ret.groups < MaxGroups
    /\ frames' = Append(frames, Frame)
    /\ fs' = Append(fs, name)
    /\ mws' = child.mws
    /\ hdl' = child.hdl
    /\ opts' = child.opts
    /\ ret' = Call(op, "", name, ret.n)
    /\ trace' = <<>>
    /\ UNCHANGED <<mem, dtyp, dlit, dsep, dres>>

\* r.Group(name, desc, closure), up to the call of closure.
Group(name) == enter("Group", name, fsCmd(mws, opts))

\* r.Stmt(closure), up to the call of closure.
Stmt == enter("Stmt", "", fsStmt(mws, opts))

\* The closure of the innermost Group or Stmt call returns, and the call
\* ends with r.fs = fs.
closureReturn ==
    /\ frames # <<>>
    /\ fs' = frames[Len(frames)].fs
    /\ mws' = frames[Len(frames)].mws
    /\ hdl' = frames[Len(frames)].hdl
    /\ opts' = frames[Len(frames)].opts
    /\ frames' = SubSeq(frames, 1, Len(frames) - 1)
    /\ ret' = Call("Return", "", fs, ret.n)
    /\ trace' = <<>>
    /\ UNCHANGED <<mem, dtyp, dlit, dsep, dres>>

(***************************************************************************)
(* The callables and command lines the model registers and runs.           *)
(***************************************************************************)
tNamedFunc == TFunc("Next", <<>>, 0)                     \* type Next func()
tNamedHandler == TFunc("Hook", <<typContext>>, 0)        \* type Hook func(context.Context)
tNamedMiddleware == TFunc("Wrap", <<typContext, typHandler>>, 0)

\* The continuation a callable's type takes as its last parameter: "zero"
\* (a func()), "ctx" (a func(context.Context)) or "none".
ContOf(typ) ==
    IF typ.k # "func" \/ typ.in = <<>> THEN "none"
    ELSE LET last == typ.in[Len(typ.in)]
         IN  IF ConvertibleTo(last, typEmptyFunc) THEN "zero"
             ELSE IF ConvertibleTo(last, typHandler) THEN "ctx"
             ELSE "none"

\* The bodies a callable of type typ may have.
Bodies(typ) ==
    CASE ContOf(typ) = "zero" -> {Callable(typ, n, "same") : n \in 0..MaxCalls}
      [] ContOf(typ) = "ctx" ->
            {Callable(typ, 0, "same")}
            \cup {Callable(typ, 1, d) : d \in {"same", "add", "fresh"}}
            \cup {Callable(typ, n, "add") : n \in 2..MaxCalls}
      [] OTHER -> {Callable(typ, 0, "same")}

\* The middlewares of the chain specification: every closure the resolver
\* can return for a middleware, bound options apart from record 12.
ChainMwTypes ==
    { TFunc("", <<typEmptyFunc>>, 0),
      TFunc("", <<typContext, typEmptyFunc>>, 0),
      TFunc("", <<typContext, TStruct(12), tNamedFunc>>, 0),
      TFunc("", <<typContext, typHandlerFunc>>, 0),
      typMiddlewareFunc, typMiddleware, tNamedMiddleware,
      typEmptyFunc, typHandler, typHandlerFunc, tNamedFunc, tNamedHandler,
      TFunc("", <<TPtr(TStruct(12))>>, 0) }

ChainMws == UNION {Bodies(t) : t \in ChainMwTypes}

ChainHandlers == {Callable(typHandlerFunc, 0, "same")}

ChainCtxs == {{Key("bar", 0)}}

Pending == [err |-> "pending", val |-> Nil]

InitRouter ==
    /\ mws = <<>>
    /\ hdl = NoHandler
    /\ opts = <<>>
    /\ mem = <<>>
    /\ ret = [op |-> "New", err |-> "", in |-> <<>>, n |-> 0, nopts |-> 0, nmem |-> 0,
              groups |-> 0]
    /\ trace = <<>>
    /\ fs = <<>>
    /\ frames = <<>>

Init ==
    /\ InitRouter
    /\ dtyp = NoType
    /\ dlit = <<>>
    /\ dsep = <<>>
    /\ dres = Pending

Next ==
    \/ \E m \in ChainMws : Use(<<m>>)
    \/ \E h \in ChainHandlers : Handle(h)
    \/ \E c \in ChainCtxs : Run(c, <<>>, FALSE)

Spec == Init /\ [][Next]_vars

(***************************************************************************)
(* The chain (specification Spec).                                         *)
(***************************************************************************)
\* The callable registered at position k of the chain.
FnAt(k) == mws[k].fn

\* Whether the callable at position k takes a continuation.
TakesCont(k) == ContOf(FnAt(k).typ) # "none"

\* Whether event e is the entry into a wrapper.
Entry(e) == e.ev \in {"pre", "handler"}

\* How many times position k was entered in the last run.
Entries(k) == Cardinality({i \in 1..Len(trace) : trace[i].at = k /\ Entry(trace[i])})

\* The last run reached the chain.
Ran == ret.op = "Run" /\ ret.err = ""

\* What the last run executed, in order: <<event, position>>.
Executed == [i \in 1..Len(trace) |-> <<trace[i].ev, trace[i].at>>]

\* pre 1, ..., pre n, the handler, post n, ..., post 1.
Nested(n) ==
    [i \in 1..(2 * n + 1) |->
        IF i <= n THEN <<"pre", i>>
        ELSE IF i = n + 1 THEN <<"handler", n + 1>>
        ELSE <<"post", 2 * n + 2 - i>>]

EachCallsOnce == \A k \in 1..Len(mws) : TakesCont(k) /\ FnAt(k).calls = 1

\* C1: with middlewares M1..MN (N >= 1), each taking a continuation and
\* calling it exactly once, and a handler H, a run executes the code before
\* the continuation of M1, ..., MN, then H, then the code after the
\* continuation of MN, ..., M1, and nothing else: H runs exactly once.
C1_NestedOrder ==
    (Ran /\ Len(mws) >= 1 /\ EachCallsOnce) => Executed = Nested(Len(mws))

C1_Witness ==
    /\ Ran /\ Len(mws) = MaxMw /\ EachCallsOnce
    /\ Len(trace) = 2 * MaxMw + 1
    /\ \E k \in 1..Len(mws) : ContOf(FnAt(k).typ) = "zero"
    /\ \E k \in 1..Len(mws) : ContOf(FnAt(k).typ) = "ctx"

\* How many times the callable at position k has the next wrapper entered
\* each time it runs: as often as its body invokes the continuation, once
\* when it takes none.
Fanout(k) == IF TakesCont(k) THEN FnAt(k).calls ELSE 1

\* C4: the remainder of the chain after Mk is entered as many times as Mk
\* invokes its continuation (never when it does not invoke it, and the run
\* still returns normally); for a callable without a continuation the
\* wrapper enters the next wrapper exactly once, right after the callable
\* has returned.
C4_Reentry ==
    (ret.op = "Run" /\ hdl # NoHandler) =>
        /\ ret.err = ""
        /\ Entries(1) = 1
        /\ \A k \in 1..Len(mws) : Entries(k + 1) = Entries(k) * Fanout(k)
        /\ \A i \in 1..Len(trace) :
              LET e == trace[i]
              IN  /\ (e.ev = "pre" /\ ~TakesCont(e.at)) =>
                        /\ i < Len(trace)
                        /\ trace[i + 1].ev = "post" /\ trace[i + 1].at = e.at
                  /\ (e.ev = "post" /\ ~TakesCont(e.at)) =>
                        /\ i < Len(trace)
                        /\ Entry(trace[i + 1]) /\ trace[i + 1].at = e.at + 1
                  /\ (e.ev = "post" /\ TakesCont(e.at) /\ i < Len(trace)) =>
                        trace[i + 1].at <= e.at

C4_Witness ==
    /\ Ran /\ Len(mws) = 2
    /\ TakesCont(1) /\ FnAt(1).calls = 2
    /\ ~TakesCont(2)
    /\ Entries(2) = 2 /\ Entries(3) = 2

\* The event of the run in which the wrapper entered at event i was called:
\* the latest entry before i into the position before it.
Upstream(i) ==
    CHOOSE j \in 1..(i - 1) :
        /\ trace[j].ev = "pre" /\ trace[j].at = trace[i].at - 1
        /\ \A l \in (j + 1)..(i - 1) :
              ~(trace[l].ev = "pre" /\ trace[l].at = trace[i].at - 1)

\* The context the body of the callable at position k hands its
\* context-accepting continuation when it has received c.
Handed(k, c) ==
    CASE FnAt(k).derive = "add" -> c \cup {Key("mw", k)}
      [] FnAt(k).derive = "fresh" -> {}
      [] OTHER -> c

\* C5: the context a wrapper receives is the one the middleware before it
\* passed to its context-accepting continuation, and the context that
\* middleware itself received when its continuation takes no argument or
\* when it has no continuation; the first wrapper receives the context of
\* Run; no middleware observes a value added by a later one.
C5_Context ==
    Ran =>
        \A i \in 1..Len(trace) :
            LET e == trace[i]
            IN  /\ e.hasCtx => e.ctx = e.wctx
                /\ \A k \in e.at..Len(mws) : Key("mw", k) \notin e.wctx
                /\ Entry(e) =>
                      IF e.at = 1 THEN e.wctx = ret.in.ctx \cup {ctxRouterKey}
                      ELSE e.wctx =
                             IF ContOf(FnAt(e.at - 1).typ) = "ctx"
                             THEN Handed(e.at - 1, trace[Upstream(i)].wctx)
                             ELSE trace[Upstream(i)].wctx

C5_Witness ==
    /\ Ran /\ Len(mws) = 2
    /\ ContOf(FnAt(1).typ) = "ctx" /\ FnAt(1).derive = "add"
    /\ ContOf(FnAt(2).typ) = "zero" /\ FnAt(2).calls = 1
    /\ \E i \in 1..Len(trace) :
          /\ trace[i].ev = "handler" /\ trace[i].hasCtx
          /\ Key("mw", 1) \in trace[i].ctx
          /\ Key("bar", 0) \in trace[i].ctx

(***************************************************************************)
(* Default coercion of composite literals (specification SpecDft): the     *)
(* declared type, the literal and the separators are drawn at the start,   *)
(* Coerce applies parseDefault to them.                                    *)
(***************************************************************************)
RECURSIVE Join(_, _)
Join(ss, c) ==
    IF Len(ss) = 0 THEN <<>>
    ELSE IF Len(ss) = 1 THEN ss[1]
    ELSE ss[1] \o <<c>> \o Join(Tail(ss), c)

\* The non-empty sequences over S of length n at most.
Seqs(S, n) == UNION {[1..k -> S] : k \in 1..n}

KV(k, v) == <<k, ":", v>>

\* The pieces joined with "," into a literal.
DftEntries ==
    { <<"1">>, <<" ", "2">>, <<"x">>, KV("a", "1"), KV("a", "2"),
      <<"b", ":", " ", "3">>, <<"a">>, <<"a", ":", "1", ":", "2">> }

\* The map literals joined with ";" into a literal.
DftMaps ==
    { Join(<<KV("a", "1"), KV("b", "2")>>, ","), KV("a", "1"),
      Join(<<KV("x", "7"), KV("a", "9")>>, ","), <<"a">> }

\* The dft literals of the options record of the tests.
litList == Join(<<<<"1">>, <<"2">>, <<"3">>>>, ",")

litMap == Join(<<KV("a", "1"), KV("b", "2"), KV("c", "3")>>, ",")

litLM ==
    Join(<<litMap, Join(<<KV("x", "7"), KV("y", "8"), KV("z", "9")>>, ",")>>, ";")

litML ==
    Join(<<KV("a", "1"), KV("a", "2"), KV("a", "3"),
           KV("b", "4"), KV("b", "5"), KV("b", "6")>>, ",")

DftLits ==
    {Join(es, ",") : es \in Seqs(DftEntries, MaxEntries)}
    \cup {Join(ms, ";") : ms \in Seqs(DftMaps, MaxEntries)}
    \cup {litList, litMap, litLM, litML}

tList == TSlice(TInt(64))                       \* []int
tMap == TMap(TString, TInt(64))                 \* map[string]int
tLM == TSlice(TMap(TString, TInt(64)))          \* []map[string]int
tML == TMap(TString, TSlice(TInt(64)))          \* map[string][]int

DftTypes == {tList, tMap, tLM, tML}

DftSeps == {<<>>, <<"|", "=">>}

InitDft ==
    /\ InitRouter
    /\ dtyp \in DftTypes
    /\ dlit \in DftLits
    /\ dsep \in DftSeps
    /\ dres = Pending

Coerce ==
    /\ dres = Pending
    /\ dres' = parseDefault(dtyp, dlit, dsep)
    /\ UNCHANGED <<mws, hdl, opts, mem, ret, trace, dtyp, dlit, dsep, fs, frames>>

NextDft == Coerce

SpecDft == InitDft /\ [][NextDft]_vars

\* The reference: the pieces of s between the occurrences of c, by position.
Cuts(s, c) == {0} \cup {i \in 1..Len(s) : s[i] = c} \cup {Len(s) + 1}

Cut(s, c, k) == CHOOSE x \in Cuts(s, c) : Cardinality({y \in Cuts(s, c) : y < x}) = k

Pieces(s, c) ==
    [k \in 1..(Cardinality(Cuts(s, c)) - 1) |->
        SubSeq(s, Cut(s, c, k - 1) + 1, Cut(s, c, k) - 1)]

RefInt(s) == ParseInt(TrimSpace(s))

\* A list literal: its trimmed elements, in literal order.
RefList(s) ==
    LET ps == Pieces(s, ",")
    IN  IF \E k \in DOMAIN ps : RefInt(ps[k]).err # "" THEN Fail("malformed")
        ELSE Ok(VSlice([k \in DOMAIN ps |-> RefInt(ps[k]).val]))

\* An entry of a map literal is well formed when it splits into exactly two
\* parts on ":" and its value is an integer.
RefEntryOk(e) == Len(Pieces(e, ":")) = 2 /\ RefInt(Pieces(e, ":")[2]).err = ""

RefKey(e) == VStr(TrimSpace(Pieces(e, ":")[1]))

RefVal(e) == RefInt(Pieces(e, ":")[2]).val

\* The entries of ps under key, in literal order.
RefUnder(ps, key) ==
    LET at == {k \in DOMAIN ps : RefKey(ps[k]) = key}
        nth(j) == CHOOSE k \in at : Cardinality({l \in at : l < k}) = j - 1
    IN  [j \in 1..Cardinality(at) |-> RefVal(ps[nth(j)])]

\* A map literal: one entry per key, the last pair of a key gives its value;
\* with list values, the values of a key's pairs in literal order.
RefMap(s, lists) ==
    LET ps == Pieces(s, ",")
        keys == {RefKey(ps[k]) : k \in DOMAIN ps}
    IN  IF \E k \in DOMAIN ps : ~RefEntryOk(ps[k]) THEN Fail("malformed")
        ELSE Ok(VMap([key \in keys |->
                        IF lists THEN VSlice(RefUnder(ps, key))
                        ELSE RefUnder(ps, key)[Len(RefUnder(ps, key))]]))

\* A list of maps: the map literals between the ";".
RefListMap(s) ==
    LET ps == Pieces(s, ";")
    IN  IF \E k \in DOMAIN ps : RefMap(TrimSpace(ps[k]), FALSE).err # ""
        THEN Fail("malformed")
        ELSE Ok(VSlice([k \in DOMAIN ps |-> RefMap(TrimSpace(ps[k]), FALSE).val]))

Reference(typ, s) ==
    CASE typ = tList -> RefList(s)
      [] typ = tMap -> RefMap(s, FALSE)
      [] typ = tML -> RefMap(s, TRUE)
      [] typ = tLM -> RefListMap(s)

IntMap(m) == VMap([k \in {VStr(<<c>>) : c \in DOMAIN m} |-> VInt(m[k.s[1]])])

IntList(ns) == VSlice([i \in 1..Len(ns) |-> VInt(ns[i])])

Coerced == dres # Pending /\ dsep = <<>>

\* C7: with the default separators, the coercion of a list, map,
\* map-of-lists and list-of-maps literal equals the reference: trimmed
\* elements in literal order, one entry per key:value pair, repeated keys of
\* a map of lists accumulated in literal order, a list of maps split on ";"
\* into maps split on "," and ":"; it fails when an entry does not split
\* into exactly two parts on ":".
C7_Composite ==
    Coerced =>
        /\ (dres.err = "") = (Reference(dtyp, dlit).err = "")
        /\ dres.err = "" => dres.val = Reference(dtyp, dlit).val
        /\ (dtyp \in {tMap, tML}
              /\ \E k \in DOMAIN Pieces(dlit, ",") :
                    Len(Pieces(Pieces(dlit, ",")[k], ":")) # 2) => dres.err # ""
        /\ (dtyp = tML /\ dlit = litML) =>
              dres.val = VMap([k \in {VStr(<<"a">>), VStr(<<"b">>)} |->
                                 IF k = VStr(<<"a">>) THEN IntList(<<1, 2, 3>>)
                                 ELSE IntList(<<4, 5, 6>>)])
        /\ (dtyp = tLM /\ dlit = litLM) =>
              dres.val = VSlice(<<IntMap([a |-> 1, b |-> 2, c |-> 3]),
                                  IntMap([x |-> 7, y |-> 8, z |-> 9])>>)

C7_Witness ==
    /\ Coerced /\ dtyp = tML /\ dlit = litML /\ dres.err = ""
    /\ dres.val.m[VStr(<<"a">>)] = IntList(<<1, 2, 3>>)

(***************************************************************************)
(* Callables with options records (specification SpecOpt).                 *)
(***************************************************************************)
OptMws ==
    { Callable(TFunc("", <<typContext, TStruct(3)>>, 0), 0, "same"),
      Callable(TFunc("", <<typContext, TPtr(TStruct(13))>>, 0), 0, "same"),
      Callable(TFunc("", <<TStruct(3)>>, 0), 0, "same"),
      Callable(TFunc("", <<TPtr(TStruct(3)), typEmptyFunc>>, 0), 1, "same"),
      Callable(TFunc("", <<typContext, TPtr(TStruct(13)), typHandlerFunc>>, 0), 1, "add") }

OptHandlers ==
    { Callable(TFunc("", <<TStruct(1)>>, 0), 0, "same"),
      Callable(TFunc("", <<typContext, TPtr(TStruct(1))>>, 0), 0, "same"),
      Callable(TFunc("", <<TPtr(TStruct(2))>>, 0), 0, "same") }

\* The command line of TestPosition: 2.22 -i 456 true def.
ArgsPosition ==
    << Tok(<<>>, <<"2", ".", "2", "2">>), Tok(<<"i">>, <<"4", "5", "6">>),
       Tok(<<>>, <<"t", "r", "u", "e">>), Tok(<<>>, <<"d", "e", "f">>) >>

OptArgs ==
    { <<>>,
      <<Tok(<<"i">>, <<"4", "5", "6">>)>>,
      ArgsPosition,
      <<Tok(<<"w">>, <<"5">>), Tok(<<"i", "n", "t">>, <<"-", "7">>)>>,
      <<Tok(<<"l">>, <<"4", "|", "5">>), Tok(<<"d", "e", "b", "u", "g">>, <<"f">>)>> }

NextOpt ==
    \/ \E m \in OptMws : Use(<<m>>)
    \/ \E h \in OptHandlers : Handle(h)
    \/ \E c \in ChainCtxs, args \in OptArgs : Run(c, args, FALSE)
    \/ \E c \in ChainCtxs : Run(c, ArgsPosition, TRUE)

SpecOpt == Init /\ [][NextOpt]_vars

\* The options record of a callable, read from its type: the parameter that
\* is a struct or a pointer to a struct (0: none).
IsOptParam(p) == p.k = "struct" \/ (p.k = "ptr" /\ p.elem.k = "struct")

RecOf(typ) ==
    IF typ.k # "func" THEN 0
    ELSE LET ps == {i \in 1..Len(typ.in) : IsOptParam(typ.in[i])}
             p == typ.in[CHOOSE i \in ps : TRUE]
         IN  IF ps = {} THEN 0 ELSE IF p.k = "ptr" THEN p.elem.rec ELSE p.rec

\* The callable behind event e of the last run.
FnOf(e) == IF e.at <= Len(mws) THEN FnAt(e.at) ELSE hdl.fn

\* A field the binder binds: exported, with a short or a long identifier.
Identified(fld) == fld.exported /\ (fld.short # <<>> \/ fld.long # <<>>)

\* The literal coerced to the type of the field.
CoercedTo(fld, lit) ==
    Convert(parseDefault(fld.typ, lit, TrimSpace(fld.sep)).val, fld.typ)

\* The tokens of the command line that supply the field.
Supplying(fld, args) ==
    {k \in 1..Len(args) :
        args[k].opt # <<>> /\ (args[k].opt = fld.short \/ args[k].opt = fld.long)}

\* All fields of the record are well formed.
GoodRecord(rec) ==
    \A f \in 1..Len(Records[rec]) :
        LET fld == Records[rec][f]
        IN  fld.exported =>
              /\ Len(fld.short) <= 1
              /\ fld.dft # <<>> =>
                    parseDefault(fld.typ, fld.dft, TrimSpace(fld.sep)).err = ""

\* No identifier of the record was bound before the last call.
FreshBefore(rec) ==
    \A j \in 1..ret.nopts : \A f \in 1..Len(Records[rec]) :
        LET fld == Records[rec][f]
        IN  Identified(fld) =>
              /\ fld.short # <<>> => opts[j].short # fld.short
              /\ fld.long # <<>> => opts[j].long # fld.long

\* C6: during a run, a callable observes in every bound field of its
\* options record (a struct value or a pointer) the value supplied on the
\* command line of that run when the option was supplied, and the coerced
\* dft default when it was omitted.
C6_Observed ==
    Ran =>
        \A i \in 1..Len(trace) :
            trace[i].hasArg =>
                \A f \in 1..Len(Records[RecOf(FnOf(trace[i]).typ)]) :
                    LET fld == Records[RecOf(FnOf(trace[i]).typ)][f]
                        ks == Supplying(fld, ret.in.args)
                    IN  Identified(fld) =>
                          IF ks # {}
                          THEN trace[i].arg[f] =
                                 CoercedTo(fld, ret.in.args[CHOOSE k \in ks : TRUE].val)
                          ELSE fld.dft # <<>> =>
                                 trace[i].arg[f] = CoercedTo(fld, fld.dft)

C6_Witness ==
    /\ Ran /\ Len(mws) = 1 /\ FnAt(1).typ = TFunc("", <<TStruct(3)>>, 0)
    /\ hdl.fn.typ = TFunc("", <<typContext, TPtr(TStruct(1))>>, 0)
    /\ \E i \in 1..Len(trace) :
          /\ trace[i].ev = "pre" /\ trace[i].hasArg
          /\ trace[i].arg[1] = VInt(5)
          /\ trace[i].arg[2] = IntList(<<1, 2>>)
    /\ \E i \in 1..Len(trace) :
          /\ trace[i].ev = "handler" /\ trace[i].hasArg
          /\ trace[i].arg[1] = VInt(-7)

\* The shape func(context.Context, arg) or func(context.Context, *arg).
CtxOptShape(typ) ==
    /\ typ.k = "func" /\ typ.out = 0 /\ Len(typ.in) = 2
    /\ typ.in[1] = typContext /\ IsOptParam(typ.in[2])

\* C2: Use accepts a middleware func(context.Context, arg) or
\* func(context.Context, *arg) with a well-formed options record: the
\* registration succeeds, the record is bound once, and on a run the
\* callable receives the live context and the bound instance, then the next
\* wrapper is entered exactly once with the same context.
C2_CtxOptAccepted ==
    /\ (/\ ret.op = "Use" /\ Len(ret.in) = 1
        /\ CtxOptShape(ret.in[1].typ)
        /\ GoodRecord(RecOf(ret.in[1].typ))
        /\ FreshBefore(RecOf(ret.in[1].typ)))
       => /\ ret.err = ""
          /\ Len(mem) = ret.nmem + 1
          /\ Len(mws) >= 1 /\ mws[Len(mws)].fn = ret.in[1]
    /\ Ran =>
          \A i \in 1..Len(trace) :
              (/\ trace[i].ev = "pre"
               /\ CtxOptShape(FnOf(trace[i]).typ))
              => /\ trace[i].hasCtx /\ trace[i].ctx = trace[i].wctx
                 /\ trace[i].hasArg
                 /\ i + 2 <= Len(trace)
                 /\ trace[i + 1].ev = "post" /\ trace[i + 1].at = trace[i].at
                 /\ Entry(trace[i + 2]) /\ trace[i + 2].at = trace[i].at + 1
                 /\ trace[i + 2].wctx = trace[i].wctx

\* The fields the claim takes for positional: exported, with a dft
\* annotation and neither identifier.
Positional(fld) == fld.exported /\ fld.hasDft /\ fld.short = <<>> /\ fld.long = <<>>

\* The n-th element of set S of numbers, in increasing order.
Nth(S, n) == CHOOSE k \in S : Cardinality({l \in S : l < k}) = n - 1

\* C10: the positional tokens of the command line are assigned, in
\* declaration order, to the fields that carry a dft annotation and neither
\* identifier, and the identified fields are still set from their options:
\* 2.22 -i 456 true def gives Float = 2.22, Int = 456, Bool = true,
\* Str = "def".
C10_Positional ==
    (/\ ret.op = "Run" /\ mws = <<>> /\ hdl # NoHandler
     /\ RecOf(hdl.fn.typ) = 2)
    => LET args == ret.in.args
           fields == Records[2]
           pos == {k \in 1..Len(args) : args[k].opt = <<>>}
           flds == {f \in 1..Len(fields) : Positional(fields[f])}
           known == \A k \in (1..Len(args)) \ pos :
                        \E f \in 1..Len(fields) :
                            Identified(fields[f]) /\ k \in Supplying(fields[f], args)
       IN  (pos # {} /\ Cardinality(pos) <= Cardinality(flds) /\ known) =>
             /\ ret.err = ""
             /\ Len(trace) = 1
             /\ \A n \in 1..Cardinality(pos) :
                   trace[1].arg[Nth(flds, n)] =
                       CoercedTo(fields[Nth(flds, n)], args[Nth(pos, n)].val)
             /\ ret.in.args = ArgsPosition =>
                   trace[1].arg = <<VFloat(222, 2), VInt(456), VBool(TRUE),
                                    VStr(<<"d", "e", "f">>)>>

(***************************************************************************)
(* Registration of handlers of every shape and of callables with           *)
(* ill-formed options records (specification SpecReg).                     *)
(***************************************************************************)
tNamedCmd == TFunc("Cmd", <<TPtr(TStruct(1))>>, 0)      \* type Cmd func(*arg)

RegMwTypes ==
    { TFunc("", <<TStruct(4)>>, 0),
      TFunc("", <<typContext, TStruct(5)>>, 0),
      TFunc("", <<TPtr(TStruct(6)), typEmptyFunc>>, 0),
      TFunc("", <<typContext, TStruct(7), typHandlerFunc>>, 0),
      TFunc("", <<TPtr(TStruct(9))>>, 0),
      TFunc("", <<TStruct(8)>>, 0) }

RegHandlerTypes ==
    { typEmptyFunc, typHandlerFunc, typHandler, tNamedFunc, tNamedHandler,
      tNamedCmd,
      TFunc("", <<TStruct(1)>>, 0),
      TFunc("", <<TPtr(TStruct(1))>>, 0),
      TFunc("", <<typContext, TStruct(1)>>, 0),
      TFunc("", <<typContext, TPtr(TStruct(1))>>, 0),
      TFunc("", <<TStruct(4)>>, 0),
      TFunc("", <<TPtr(TStruct(5))>>, 0),
      TFunc("", <<typContext, TStruct(6)>>, 0),
      TFunc("", <<TStruct(7)>>, 0),
      TFunc("", <<TPtr(TStruct(2))>>, 0),
      TFunc("", <<TStruct(8)>>, 0),
      TFunc("", <<TPtr(TStruct(9))>>, 0),
      TFunc("", <<TStruct(10)>>, 0),
      TFunc("", <<typContext, TPtr(TStruct(11))>>, 0) }

NextReg ==
    \/ \E t \in RegMwTypes : Use(<<Callable(t, 1, "same")>>)
    \/ \E t \in RegHandlerTypes : Handle(Callable(t, 0, "same"))
    \/ \E c \in ChainCtxs : Run(c, <<>>, FALSE)

SpecReg == Init /\ [][NextReg]_vars

\* The last call was a registration.
Registering == ret.op \in {"Use", "Handle"}

\* The callable of the last registration.
Registered == IF ret.op = "Use" THEN ret.in[1] ELSE ret.in

\* The callable is in the chain of the scope.
InChain(fn) == hdl.fn = fn \/ \E k \in 1..Len(mws) : mws[k].fn = fn

\* The supported handler shapes: func(), func(context.Context), func(arg),
\* func(*arg), func(context.Context, arg), func(context.Context, *arg),
\* whatever the name of the func type.
HandlerShape(typ) ==
    /\ typ.k = "func" /\ typ.out = 0
    /\ \/ typ.in = <<>>
       \/ typ.in = <<typContext>>
       \/ Len(typ.in) = 1 /\ IsOptParam(typ.in[1])
       \/ Len(typ.in) = 2 /\ typ.in[1] = typContext /\ IsOptParam(typ.in[2])

\* C3: Handle registers a handler of every supported shape, its func type
\* unnamed, flags.Handler or a user-defined named type, without error or
\* panic, and a run without arguments invokes it exactly once, with the
\* live context when it takes one.
C3_HandlerAccepted ==
    /\ (/\ ret.op = "Handle" /\ HandlerShape(ret.in.typ)
        /\ RecOf(ret.in.typ) # 0 =>
              GoodRecord(RecOf(ret.in.typ)) /\ FreshBefore(RecOf(ret.in.typ)))
       => ret.err = "" /\ hdl.fn = ret.in
    /\ (ret.op = "Run" /\ hdl # NoHandler /\ mws = <<>> /\ ret.in.args = <<>>)
       => /\ ret.err = ""
          /\ Len(trace) = 1 /\ trace[1].ev = "handler"
          /\ ContOf(hdl.fn.typ) = "none"
          /\ (hdl.fn.typ.in # <<>> /\ hdl.fn.typ.in[1] = typContext) =>
                (trace[1].hasCtx /\ trace[1].ctx = ret.in.ctx \cup {ctxRouterKey})

\* A field the claim makes a registration fail on: a short tag longer than
\* one character, or a bool, integer or float dft that does not parse.
IllFormed(fld) ==
    /\ fld.exported
    /\ \/ Len(fld.short) > 1
       \/ /\ fld.typ.k \in {"bool", "int", "uint", "float"}
          /\ fld.dft # <<>>
          /\ parseDefault(fld.typ, fld.dft, <<>>).err # ""

IllFormedRecord(rec) ==
    rec # 0 /\ \E f \in 1..Len(Records[rec]) : IllFormed(Records[rec][f])

\* The errors of an ill-formed tag: InvalidShortTag, MalformedDefault.
TagErrors ==
    { "flagrouter: invalid short tag: length must be 1",
      "strconv.ParseInt: invalid syntax", "strconv.ParseUint: invalid syntax",
      "strconv.ParseFloat: invalid syntax", "strconv.ParseBool: invalid syntax" }

\* C8: registering a callable whose options record has an exported field
\* with a short tag longer than one character, or a bool, integer or float
\* field with an unparsable dft, panics with that error, and the callable
\* is never in the chain, so that no run invokes it.
C8_IllFormedRejected ==
    /\ (Registering /\ IllFormedRecord(RecOf(Registered.typ)))
       => ret.err \in TagErrors /\ ~InChain(Registered)
    /\ ~IllFormedRecord(RecOf(hdl.fn.typ))
    /\ \A k \in 1..Len(mws) : ~IllFormedRecord(RecOf(FnAt(k).typ))
    /\ \A i \in 1..Len(trace) : ~IllFormedRecord(RecOf(FnOf(trace[i]).typ))

\* An exported field with neither a short nor a long identifier.
Bare(fld) == fld.exported /\ fld.short = <<>> /\ fld.long = <<>>

\* The dft of the field is not empty and does not coerce to its type.
DftFails(fld) ==
    fld.dft # <<>> /\ parseDefault(fld.typ, fld.dft, TrimSpace(fld.sep)).err # ""

BareAt(rec) == {f \in 1..Len(Records[rec]) : Bare(Records[rec][f])}

\* Every identified field of the record is well formed.
IdentifiedFine(rec) ==
    \A f \in 1..Len(Records[rec]) :
        Identified(Records[rec][f]) =>
            Len(Records[rec][f].short) <= 1 /\ ~DftFails(Records[rec][f])

\* The last call was a registration that had the binder bind a record with
\* a bare field: the instance it allocated is the last one.
BoundBare ==
    /\ Registering /\ Len(mem) = ret.nmem + 1
    /\ BareAt(mem[Len(mem)].rec) # {}

\* The fields of instance n the engine holds as bound options.
BoundFields(n) == {opts[j].fld : j \in {i \in 1..Len(opts) : opts[i].inst = n}}

C9_WitnessSkipped ==
    /\ BoundBare /\ mem[Len(mem)].rec = 2 /\ ret.err = ""
    /\ BoundFields(Len(mem)) = {2}

(***************************************************************************)
(* Registrations whose binder fails part-way (specification SpecBind).     *)
(***************************************************************************)
BindMwTypes ==
    { TFunc("", <<TStruct(3)>>, 0),
      TFunc("", <<TPtr(TStruct(5))>>, 0),
      TFunc("", <<TStruct(13), typEmptyFunc>>, 0),
      TFunc("", <<typContext, TPtr(TStruct(5)), typHandlerFunc>>, 0),
      TFunc("", <<TStruct(4)>>, 0) }

BindHandlerTypes ==
    { TFunc("", <<TStruct(1)>>, 0),
      TFunc("", <<TPtr(TStruct(5))>>, 0),
      TFunc("", <<typContext, TStruct(11)>>, 0) }

NextBind ==
    \/ \E t \in BindMwTypes : Use(<<Callable(t, 1, "same")>>)
    \/ \E t1 \in BindMwTypes, t2 \in BindMwTypes :
          Use(<<Callable(t1, 1, "same"), Callable(t2, 1, "same")>>)
    \/ \E t \in BindHandlerTypes : Handle(Callable(t, 0, "same"))
    \/ \E c \in ChainCtxs : Run(c, <<>>, FALSE)

SpecBind == Init /\ [][NextBind]_vars

\* The errors of the binder: tag parsing and default coercion.
BindErrors ==
    TagErrors \cup { "flagrouter: unsupported type",
                     "flagrouter: cannot convert to key value pair" }

\* The last registration failed in the binder, on a field of the instance
\* allocated last.
BindFailed == Registering /\ ret.err \in BindErrors

\* The options the engine holds for the fields of instance n.
OptsOf(n) == {j \in 1..Len(opts) : opts[j].inst = n}

\* C11: when the binding of an options record fails on a field, none of the
\* fields before it stays registered with the engine; a registration of one
\* callable leaves the options of the scope as they were before the call,
\* and a failing Use(m1, ..., mn) leaves no option of the failing
\* middleware's record bound.
C11_NoPartial ==
    BindFailed =>
        /\ OptsOf(Len(mem)) = {}
        /\ (ret.op = "Handle" \/ Len(ret.in) = 1) => Len(opts) = ret.nopts

(***************************************************************************)
(* Middlewares inside and outside the supported shapes (specification      *)
(* SpecShape).                                                             *)
(***************************************************************************)
ShapeMwTypes ==
    { TNil,                                                    \* nil
      TInt(64),                                                \* 5
      TFunc("", <<>>, 1),                                      \* func() int
      TFunc("", <<TStruct(3)>>, 1),                            \* func(arg) error
      TFunc("", <<typContext, TStruct(3), typEmptyFunc, typEmptyFunc>>, 0),
      TFunc("", <<TStruct(3), TStruct(13), typEmptyFunc>>, 0),
      TFunc("", <<typContext, TStruct(3), TStruct(13)>>, 0),
      TFunc("", <<typContext, TStruct(3), TInt(64)>>, 0),
      TFunc("", <<TStruct(3), typHandlerFunc>>, 0),
      TFunc("", <<TStruct(3), TStruct(13)>>, 0),
      TFunc("", <<TInt(64)>>, 0),
      TFunc("", <<TPtr(TPtr(TStruct(3)))>>, 0),
      TFunc("", <<TInt(64), typEmptyFunc>>, 0),
      TFunc("", <<typContext, TString, tNamedFunc>>, 0),
      TFunc("", <<typContext, TInt(64)>>, 0),
      TFunc("", <<tNamedFunc>>, 0),                            \* func(Next)
      TFunc("", <<typEmptyFunc>>, 0),
      TFunc("", <<TStruct(3)>>, 0),
      TFunc("", <<TPtr(TStruct(13)), tNamedFunc>>, 0),
      TFunc("", <<typContext, TStruct(13), typHandler>>, 0) }

NextShape ==
    \/ \E t \in ShapeMwTypes : Use(<<Callable(t, 1, "same")>>)
    \/ \E h \in ChainHandlers : Handle(h)
    \/ \E c \in ChainCtxs : Run(c, <<>>, FALSE)

SpecShape == Init /\ [][NextShape]_vars

\* A zero-argument continuation, a continuation of either kind.
Cont0(p) == ConvertibleTo(p, typEmptyFunc)

ContAny(p) == ConvertibleTo(p, typEmptyFunc) \/ ConvertibleTo(p, typHandler)

\* The supported middleware shapes: func(), func(context.Context),
\* func(arg), func(handler func()), func(context.Context, arg),
\* func(arg, handler func()), func(context.Context, handler),
\* func(context.Context, arg, handler), arg a struct or a pointer to one,
\* whatever the name of the func type.
MiddlewareShape(typ) ==
    /\ typ.k = "func" /\ typ.out = 0
    /\ \/ typ.in = <<>>
       \/ typ.in = <<typContext>>
       \/ Len(typ.in) = 1 /\ (IsOptParam(typ.in[1]) \/ Cont0(typ.in[1]))
       \/ /\ Len(typ.in) = 2 /\ typ.in[1] = typContext
          /\ (IsOptParam(typ.in[2]) \/ ContAny(typ.in[2]))
       \/ Len(typ.in) = 2 /\ IsOptParam(typ.in[1]) /\ Cont0(typ.in[2])
       \/ /\ Len(typ.in) = 3 /\ typ.in[1] = typContext
          /\ IsOptParam(typ.in[2]) /\ ContAny(typ.in[3])

\* C12: Use rejects every callable outside the supported middleware shapes
\* (a value that is no function, a function with results, with more than
\* three parameters, with a third parameter that is no continuation or a
\* first that is no context, with an options position that holds neither a
\* struct nor a pointer to one) and registers nothing for it: no
\* middleware, no option, no instance.  A one-parameter function whose
\* parameter converts to func() is registered as taking a continuation, and
\* nothing is bound for it.
C12_Rejected ==
    /\ (ret.op = "Use" /\ ~MiddlewareShape(Registered.typ))
       => /\ ret.err # "" /\ ~InChain(Registered)
          /\ Len(opts) = ret.nopts /\ Len(mem) = ret.nmem
    /\ \A k \in 1..Len(mws) :
          /\ MiddlewareShape(FnAt(k).typ)
          /\ (Len(FnAt(k).typ.in) = 1 /\ Cont0(FnAt(k).typ.in[1]))
             => mws[k].w = "sCont" /\ mws[k].param = NoParam
    /\ (/\ ret.op = "Use" /\ Registered.typ.k = "func"
        /\ Registered.typ.out = 0 /\ Len(Registered.typ.in) = 1
        /\ Cont0(Registered.typ.in[1]))
       => ret.err = "" /\ Len(mem) = ret.nmem /\ InChain(Registered)

\* A three-parameter function whose first parameter is no context has been
\* rejected on a router that already holds a middleware and its options.
C12_Witness ==
    /\ ret.op = "Use"
    /\ Registered.typ = TFunc("", <<TStruct(3), TStruct(13), typEmptyFunc>>, 0)
    /\ ret.err = "middleware with context and option and handler, the first arg must be a context"
    /\ Len(mws) = 1 /\ mws[1].w = "sCont" /\ Len(opts) = ret.nopts

(***************************************************************************)
(* Integer defaults of every width (specification SpecInt).                *)
(***************************************************************************)
IntMwTypes ==
    { TFunc("", <<TStruct(14)>>, 0),
      TFunc("", <<TPtr(TStruct(15))>>, 0),
      TFunc("", <<TStruct(16), typEmptyFunc>>, 0),
      TFunc("", <<TStruct(3)>>, 0) }

IntHandlerTypes ==
    { TFunc("", <<TStruct(17)>>, 0),
      TFunc("", <<TPtr(TStruct(14))>>, 0),
      TFunc("", <<TStruct(1)>>, 0),
      TFunc("", <<typContext, TPtr(TStruct(16))>>, 0) }

IntArgs == { <<>>, <<Tok(<<"v">>, <<"5">>)>>, <<Tok(<<"i">>, <<"4", "5", "6">>)>> }

NextInt ==
    \/ \E t \in IntMwTypes : Use(<<Callable(t, 1, "same")>>)
    \/ \E t \in IntHandlerTypes : Handle(Callable(t, 0, "same"))
    \/ \E c \in ChainCtxs, args \in IntArgs : Run(c, args, FALSE)

SpecInt == Init /\ [][NextInt]_vars

\* The integers a value holds: itself, its elements, its keys and values.
RECURSIVE NumsOf(_)
NumsOf(v) ==
    CASE v.t \in {"int", "uint"} -> {v.n}
      [] v.t = "slice" -> UNION {NumsOf(v.elems[i]) : i \in 1..Len(v.elems)}
      [] v.t = "map" -> UNION {NumsOf(k) \cup NumsOf(v.m[k]) : k \in DOMAIN v.m}
      [] OTHER -> {}

\* The maximal runs of signs and digits of a literal.
RECURSIVE LitRuns(_, _)
LitRuns(s, cur) ==
    IF s = <<>> THEN (IF cur = <<>> THEN {} ELSE {cur})
    ELSE IF IsDigit(Head(s)) \/ Head(s) \in {"-", "+"}
    THEN LitRuns(Tail(s), Append(cur, Head(s)))
    ELSE (IF cur = <<>> THEN {} ELSE {cur}) \cup LitRuns(Tail(s), <<>>)

\* The integers a base-10 literal denotes.
LitNums(s) ==
    {ParseInt(r).val.n : r \in {q \in LitRuns(s, <<>>) : ParseInt(q).err = ""}}

\* A type made of integers only, and the integer type at its leaves (the
\* keys and values of the maps of the model have the same type).
RECURSIVE IntOnly(_)
IntOnly(typ) ==
    CASE typ.k \in {"int", "uint"} -> TRUE
      [] typ.k = "slice" -> IntOnly(typ.elem)
      [] typ.k = "map" -> IntOnly(typ.key) /\ IntOnly(typ.elem)
      [] OTHER -> FALSE

RECURSIVE Leaf(_)
Leaf(typ) == IF typ.k \in {"slice", "map"} THEN Leaf(typ.elem) ELSE typ

\* Whether n is a value of integer type t (the literals of the model are
\* below 2^31).
InRange(t, n) ==
    IF t.w >= 32 THEN t.k = "int" \/ n >= 0
    ELSE IF t.k = "int" THEN 0 - Pow2(t.w - 1) <= n /\ n < Pow2(t.w - 1)
    ELSE 0 <= n /\ n < Pow2(t.w)

\* A bound field of integers with a dft literal.
IntField(fld) == Identified(fld) /\ IntOnly(fld.typ) /\ fld.dft # <<>>

OutOfRange(fld) ==
    IntField(fld) /\ \E n \in LitNums(fld.dft) : ~InRange(Leaf(fld.typ), n)

\* C13: the default the engine holds for an integer field of any width,
\* and for the integer elements, keys and values of a list or map field,
\* is numerically the integer its base-10 dft literal denotes; a callable
\* whose record has a literal outside the range of the declared type fails
\* to register, the literal is never stored as another value.
C13_IntegerExact ==
    /\ \A j \in 1..Len(opts) :
          LET fld == Records[mem[opts[j].inst].rec][opts[j].fld]
          IN  (IntField(fld) /\ opts[j].hasDft) =>
                 NumsOf(opts[j].dft) = LitNums(fld.dft)
    /\ (/\ Registering /\ RecOf(Registered.typ) # 0
        /\ \E f \in 1..Len(Records[RecOf(Registered.typ)]) :
              OutOfRange(Records[RecOf(Registered.typ)][f]))
       => ret.err # "" /\ ~InChain(Registered)

(***************************************************************************)
(* Scopes: Group and Stmt with closures that register, return and panic    *)
(* (specification SpecScope).                                              *)
(***************************************************************************)
ScopeMwTypes ==
    { TFunc("", <<typEmptyFunc>>, 0),
      TFunc("", <<TStruct(4)>>, 0) }

ScopeHandlerTypes ==
    { TFunc("", <<TPtr(TStruct(1))>>, 0), TFunc("", <<>>, 1) }

ScopeNames == {"bar"}

NextScope ==
    \/ \E name \in ScopeNames : Group(name)
    \/ Stmt
    \/ closureReturn
    \/ \E t \in ScopeMwTypes : Use(<<Callable(t, 1, "same")>>)
    \/ \E t \in ScopeHandlerTypes : Handle(Callable(t, 0, "same"))
    \/ \E c \in ChainCtxs : Run(c, <<>>, FALSE)

SpecScope == Init /\ [][NextScope]_vars

\* C14: whenever Group and Stmt calls are over, by the return of the
\* closure or by a registration panic of Use or Handle inside it that the
\* caller recovers, the router's current scope is the one that was current
\* before the outermost of the calls that ended, at any nesting depth.
C14_ScopeRestored ==
    [][Len(frames') < Len(frames) => fs' = frames[Len(frames') + 1].fs]_vars

====
